---- MODULE Spec2Model ----
(***************************************************************************)
(* Model of the response-model coercion and retry engine of instructor    *)
(* (src/instructor/patch.py, src/instructor/process_response.py): one     *)
(* patched client, one logical create call per behaviour.  A step is one  *)
(* whole handler: the create wrapper up to the first loop test, or one    *)
(* whole iteration of the retry loop (the transport call, the usage       *)
(* accumulation, the parse and, when the parse fails, the whole except    *)
(* block).  TransformSpec runs the mode handlers alone.                   *)
(***************************************************************************)
EXTENDS Integers, Sequences, FiniteSets, TLC

\* Largest max_retries a caller passes in the model.
MaxRetries == 2

\* Longest conversation a caller passes to the mode handlers (TransformSpec).
MaxConv == 3

\* Largest number of tool calls / tasks in one response.
MaxItems == 3

----------------------------------------------------------------------------
(* Values *)

\* A piece of text: <<tag, n>>.  A message content is a sequence of pieces;
\* n ties a piece to the transport response (attempt number) it came from.
Tok(tag, n) == <<tag, n>>

\* Python's None as a message content (distinct from the empty string <<>>).
NoneContent == <<Tok("None", 0)>>

\* A conversation message (a dict).  tool_calls = 0, tool_call_id = 0 and
\* name = "" stand for "key absent"; a positive tool_calls / tool_call_id is
\* the number of the response that carried the call.
Msg(role, content) ==
    [role |-> role, content |-> content, tool_calls |-> 0, tool_call_id |-> 0, name |-> ""]

\* Token usage <<prompt, completion, total>>; <<>> is "usage is None".
NoUsage == <<>>
ZeroUsage == <<0, 0, 0>>
Usages == {<<10, 5, 15>>}

AddUsage(total, u) ==
    <<total[1] + u[1], total[2] + u[2], total[3] + u[3]>>

\* The modes of the patch.py dispatch, and one mode it does not know.
PatchModes == {"FUNCTIONS", "TOOLS", "JSON", "MD_JSON", "JSON_SCHEMA", "PARALLEL_TOOLS"}
Modes == PatchModes \cup {"MISTRAL_TOOLS"}

\* The modes of the process_response.py dispatch.
AnthropicModes == {"ANTHROPIC_TOOLS", "ANTHROPIC_JSON"}
NoMessagesModes == {"COHERE_TOOLS", "GEMINI_JSON", "VERTEXAI_TOOLS", "VERTEXAI_JSON"}
AllModes == Modes \cup AnthropicModes \cup NoMessagesModes

\* The two generations of the pipeline in the repository: patch.py's own
\* handle_response_model and process_response, or those of
\* process_response.py; the retry loop is patch.py's in both.
Impls == {"patch", "process_response"}
ModesOf(im) == IF im = "patch" THEN Modes ELSE AllModes

\* patch.py has the loop twice, retry_sync and retry_async; the handler and
\* parser of process_response.py are followed on the synchronous surface.
SurfacesOf(im) == IF im = "patch" THEN {"sync", "async"} ELSE {"sync"}

\* What the caller passes as response_model.
ResponseModels == {"None", "BaseModel", "Iterable"}

\* PARALLEL_TOOLS takes the type hint Iterable[Union[Weather, GoogleSearch]].
ResponseModelsFor(m) ==
    IF m = "PARALLEL_TOOLS" THEN {"None", "IterableUnion"} ELSE ResponseModels

\* The names of the schemas: the class behind a wrapped response model, and
\* the members of the union.
SchemaName(rm) == IF rm = "IterableModel" THEN "IterableUserDetail" ELSE "UserDetail"
UnionMembers == <<"Weather", "GoogleSearch">>

\* The conversations a caller starts from.
CallerConversations ==
    { <<Msg("user", <<Tok("prompt", 0)>>)>>,
      <<Msg("system", <<Tok("system_prompt", 0)>>), Msg("user", <<Tok("prompt", 0)>>)>> }

\* The shapes of a transport response: plain text, a tool call, a function
\* call (non-streaming), or a stream object.
Shapes == {"text", "tool", "function"}
Payloads == {"valid", "invalid", "malformed"}

\* The text of the schema instruction and the separator put before it.
SchemaInstruction == <<Tok("schema_instruction", 0)>>
Sep == <<Tok("\n\n", 0)>>

----------------------------------------------------------------------------
VARIABLES
    mode,           \* the mode the client was patched with
    impl,           \* which generation of handler and parser is installed
    surface,        \* "sync" or "async": which wrapper patch() installed
    pc,             \* "idle", "attempt" (at the while test), "returned", "raised"
    heap,           \* the list objects: heap.caller is the caller's messages list
    orig_messages,  \* the caller's messages list as it was when create was called
    caller_kwargs,  \* the keyword arguments the caller passed to create
    response_model, \* the response model after handle_response_model
    new_kwargs,     \* the request parameters handed to the transport
    max_retries,
    retries,
    total_usage,
    response,       \* the local variable `response` of the retry loop
    calls,          \* number of transport invocations of this call
    sent,           \* the request of the latest transport invocation
    history,        \* per attempt: what the transport reported and how it ended
    result,         \* what create returned
    error,          \* what create raised
    peer,           \* a second create call in flight on the same event loop
    schema,         \* a target schema and its Gemini/Vertex conversion
    partial         \* a Partial stream: the chunks read and the snapshots yielded

vars == <<mode, impl, surface, pc, heap, orig_messages, caller_kwargs, response_model, new_kwargs,
          max_retries, retries, total_usage, response, calls, sent, history,
          result, error, peer, schema, partial>>

----------------------------------------------------------------------------
(* Records *)

\* A forcing directive (function_call / tool_choice): absent, a named
\* function or tool, "auto" or "any".
NoChoice == [kind |-> "absent", name |-> ""]
Named(n) == [kind |-> "named", name |-> n]
Generic(k) == [kind |-> k, name |-> ""]

\* A dict-valued entry: whether the key is there, and its items <<key, value>>.
NoDict == [present |-> FALSE, items |-> {}]
Dict(items) == [present |-> TRUE, items |-> items]

\* **kwargs of create.  messages names a list object of the heap ("absent":
\* no messages key); "absent", <<>>, NoChoice, NoneContent and NoDict stand
\* for a key that is not in the mapping; stream FALSE is absent/False.
\* functions and tools list the names of the declared schemas.
Kwargs(stream) ==
    [messages |-> "caller", stream |-> stream, model |-> "gpt",
     functions |-> <<>>, function_call |-> NoChoice,
     tools |-> <<>>, tool_choice |-> NoChoice,
     response_format |-> "absent",
     max_tokens |-> "absent", temperature |-> "absent", n |-> "absent",
     top_p |-> "absent", stop |-> "absent",
     system |-> NoneContent,
     generation_config |-> NoDict, safety_settings |-> NoDict,
     contents |-> <<>>, tool_config |-> "absent",
     message |-> <<>>, chat_history |-> <<>>]

Unbound == [id |-> 0, shape |-> "unbound", usage |-> "None"]

\* What create returns: the kind of value, the class of a returned model,
\* the response attached as _raw_response (0: none), and for a sequence the
\* classes of its elements.
Result(kind, cls, raw, items) ==
    [kind |-> kind, cls |-> cls, raw_response |-> raw, items |-> items]
NoResult == Result("none", "", 0, <<>>)
NoError == [kind |-> "none", has_last_completion |-> FALSE, last_completion |-> 0,
            chain |-> <<>>]

\* The list a messages entry names; NoList when there is no such entry.
NoList == <<Msg("absent", NoneContent)>>
Deref(h, ref) == IF ref = "absent" THEN NoList ELSE h[ref]

\* A Python exception raised by the code: no attribute last_completion; chain
\* lists the exceptions reachable through __cause__ / __context__.
Exc(kind, chain) ==
    [kind |-> kind, has_last_completion |-> FALSE, last_completion |-> 0,
     chain |-> chain]

NoRequest == [kwargs |-> Kwargs(FALSE), messages |-> <<>>]

\* No second call, no schema under conversion, no stream.
NoPeer == [pc |-> "absent"]
NoGeminiSchema == [type |-> "none", properties |-> <<>>, required |-> <<>>]
NoSchema == [fields |-> <<>>, gemini_schema |-> NoGeminiSchema]
NoStream == [pc |-> "absent"]

----------------------------------------------------------------------------
\* The state before create is called: a patched client and a caller's
\* conversation.
CallLocals ==
    /\ surface \in SurfacesOf(impl)
    /\ pc = "idle"
    /\ \E conv \in CallerConversations : heap = [caller |-> conv, own |-> <<>>]
    /\ orig_messages = <<>>
    /\ caller_kwargs = Kwargs(FALSE)
    /\ response_model = "None"
    /\ new_kwargs = Kwargs(FALSE)
    /\ max_retries = 0
    /\ retries = 0
    /\ total_usage = ZeroUsage
    /\ response = Unbound
    /\ calls = 0
    /\ sent = NoRequest
    /\ history = <<>>
    /\ result = NoResult
    /\ error = NoError

\* One call, nothing else going on.
CallStart ==
    /\ CallLocals
    /\ peer = NoPeer
    /\ schema = NoSchema
    /\ partial = NoStream

\* A client patched with one of the modes of the OpenAI protocol, the modes
\* patch.py's loop is written for (it reads usage and choices[0].message
\* off a ChatCompletion).
Init ==
    /\ impl \in Impls
    /\ mode \in Modes
    /\ CallStart

\* A client patched with any mode of the installed dispatch, the other
\* providers' modes of process_response.py included.
ProviderInit ==
    /\ impl \in Impls
    /\ mode \in ModesOf(impl)
    /\ CallStart

----------------------------------------------------------------------------
(* handle_response_model of patch.py *)

\* The JSON-family prompt massage: insert a system message when the first
\* message is not one, then append the instruction to the first message when
\* it is a system message (two separate ifs, the second one tested after the
\* insertion).
InjectInstruction(msgs) ==
    LET inserted == IF msgs[1].role # "system"
                    THEN <<Msg("system", SchemaInstruction)>> \o msgs
                    ELSE msgs
    IN  IF inserted[1].role = "system"
        THEN [inserted EXCEPT ![1].content = @ \o Sep \o SchemaInstruction]
        ELSE inserted

\* handle_parallel_model: one tool declaration per member of the union.
handle_parallel_model(rm) == UnionMembers

\* The response model class after the wrapping of lines 85-89.
WrapModel(rm) ==
    IF rm = "Iterable" THEN "IterableModel" ELSE "OpenAISchema"

\* handle_response_model(response_model=rm, kwargs=kw, mode=m), msgs being the
\* list object kw.messages names.  new_kwargs is a shallow copy of kw: its
\* messages entry names the same list object, so messages is that object after
\* the call.  raised is "none" or the exception raised.
handle_response_model(rm, kw, m, msgs) ==
    LET ret(raised, model, nkw, ms) ==
            [raised |-> raised, response_model |-> model, new_kwargs |-> nkw,
             messages |-> ms]
        wrapped == WrapModel(rm)
    IN  IF rm = "None" THEN ret("none", rm, kw, msgs)
        ELSE IF m = "PARALLEL_TOOLS" THEN
            IF kw.stream THEN ret("AssertionError", rm, kw, msgs)
            ELSE ret("none", "ParallelModel",
                     [kw EXCEPT !.tools = handle_parallel_model(rm),
                                !.tool_choice = Generic("auto")], msgs)
        ELSE IF kw.stream /\ wrapped # "IterableModel" THEN
            ret("NotImplementedError", wrapped, kw, msgs)
        ELSE IF m = "FUNCTIONS" THEN
            ret("none", wrapped,
                [kw EXCEPT !.functions = <<SchemaName(wrapped)>>,
                           !.function_call = Named(SchemaName(wrapped))], msgs)
        ELSE IF m = "TOOLS" THEN
            ret("none", wrapped,
                [kw EXCEPT !.tools = <<SchemaName(wrapped)>>,
                           !.tool_choice = Named(SchemaName(wrapped))], msgs)
        ELSE IF m = "JSON" THEN
            ret("none", wrapped, [kw EXCEPT !.response_format = "json_object"],
                InjectInstruction(msgs))
        ELSE IF m = "JSON_SCHEMA" THEN
            ret("none", wrapped,
                [kw EXCEPT !.response_format = "json_object with schema"],
                InjectInstruction(msgs))
        ELSE IF m = "MD_JSON" THEN
            ret("none", wrapped, [kw EXCEPT !.stop = "fence"],
                InjectInstruction(
                    Append(msgs, Msg("assistant", <<Tok("Here is the perfectly correctly formatted JSON, json fence", 0)>>))))
        ELSE ret("ValueError", wrapped, kw, msgs)

----------------------------------------------------------------------------
(* handle_response_model of process_response.py *)

\* The request process_response.py's MD_JSON branch appends for the caller.
CodeblockRequest ==
    Msg("user", <<Tok("Return the correct JSON response within a json codeblock. not the JSON_SCHEMA", 0)>>)

\* The schema text ANTHROPIC_JSON adds to the system string.  The lines of
\* the JSON text start at column 0, so dedent finds no common margin and
\* leaves the words and the blank lines before them as they are.
AnthropicSchemaText ==
    <<Tok("You must only respond in JSON format that adheres to the following schema", 0)>>

\* The instruction COHERE_TOOLS sends as the message.
CohereInstruction ==
    <<Tok("Extract a valid object based on the chat history and the json schema below", 0)>>

\* merge_consecutive_messages: adjacent messages of one role become one
\* message holding both contents, in new message objects of a new list.
RECURSIVE merge_consecutive_messages(_)
merge_consecutive_messages(msgs) ==
    IF Len(msgs) < 2 THEN msgs
    ELSE LET rest == merge_consecutive_messages(Tail(msgs))
         IN  IF msgs[1].role = rest[1].role
             THEN <<Msg(msgs[1].role, msgs[1].content \o Sep \o rest[1].content)>>
                  \o Tail(rest)
             ELSE <<msgs[1]>> \o rest

\* The instruction is appended to the first message's content whatever its
\* role; no message is inserted.
InjectInstruction2_append(msgs) ==
    [msgs EXCEPT ![1].content = @ \o Sep \o SchemaInstruction]

\* Lines 292-306: insert a system message holding the instruction when the
\* first message is not one, else append a blank line and the instruction
\* to the first message's content.
InjectInstruction2(msgs) ==
    IF msgs[1].role # "system"
    THEN <<Msg("system", SchemaInstruction)>> \o msgs
    ELSE [msgs EXCEPT ![1].content = @ \o Sep \o SchemaInstruction]

\* "\n\n".join(contents)
RECURSIVE JoinContents(_)
JoinContents(cs) ==
    IF cs = <<>> THEN <<>>
    ELSE IF Len(cs) = 1 THEN cs[1]
    ELSE cs[1] \o Sep \o JoinContents(Tail(cs))

IsSystem(msg) == msg.role = "system"
NotSystem(msg) == msg.role # "system"

\* [message["content"] for message in messages if message["role"] == "system"]
SystemContents(msgs) ==
    LET sys == SelectSeq(msgs, IsSystem) IN [i \in 1 .. Len(sys) |-> sys[i].content]

\* [message for message in messages if message["role"] != "system"]
NonSystemMessages(msgs) == SelectSeq(msgs, NotSystem)

\* transform_to_gemini_prompt: one Gemini content per message, the role
\* assistant renamed model and the other roles sent as user.
transform_to_gemini_prompt(msgs) ==
    [i \in 1 .. Len(msgs) |->
        Msg(IF msgs[i].role = "assistant" THEN "model" ELSE "user", msgs[i].content)]

\* _vertexai_message_list_parser: one Content per message, same role and text.
vertexai_message_list_parser(msgs) ==
    [i \in 1 .. Len(msgs) |-> Msg(msgs[i].role, msgs[i].content)]

\* a | b on dicts: the items of b, and those of a under other keys.
DictUnion(a, b) == {p \in a : \A q \in b : q[1] # p[1]} \cup b

HasKey(d, k) == \E p \in d : p[1] = k

\* Lines 433-439: the OpenAI sampling parameters and their Gemini names.
GeminiNames ==
    <<<<"max_tokens", "max_output_tokens">>, <<"temperature", "temperature">>,
      <<"n", "candidate_count">>, <<"top_p", "top_p">>,
      <<"stop", "stop_sequences">>>>

SamplingParams == {GeminiNames[i][1] : i \in 1 .. Len(GeminiNames)}

\* Lines 441-447 without the test for None: an absent parameter is stored.
MapSampling_all(kw, gc) ==
    LET F[i \in 0 .. Len(GeminiNames)] ==
            IF i = 0 THEN gc
            ELSE DictUnion(F[i - 1], {<<GeminiNames[i][2], kw[GeminiNames[i][1]]>>})
    IN  F[Len(GeminiNames)]

\* Lines 441-447: each parameter is popped; one that was passed with a value
\* other than None is stored in generation_config under its Gemini name.
MapSampling(kw, gc) ==
    LET F[i \in 0 .. Len(GeminiNames)] ==
            IF i = 0 THEN gc
            ELSE IF kw[GeminiNames[i][1]] \in {"absent", "None"} THEN F[i - 1]
            ELSE DictUnion(F[i - 1], {<<GeminiNames[i][2], kw[GeminiNames[i][1]]>>})
    IN  F[Len(GeminiNames)]

PopSampling(kw) ==
    [kw EXCEPT !.max_tokens = "absent", !.temperature = "absent", !.n = "absent",
               !.top_p = "absent", !.stop = "absent"]

\* Lines 454-461: the thresholds the handler sets.
DefaultSafety ==
    {<<"HARM_CATEGORY_HATE_SPEECH", "BLOCK_ONLY_HIGH">>,
     <<"HARM_CATEGORY_HARASSMENT", "BLOCK_ONLY_HIGH">>,
     <<"HARM_CATEGORY_DANGEROUS_CONTENT", "BLOCK_ONLY_HIGH">>}

\* vertexai_process_json_response's GenerationConfig(response_mime_type=...,
\* response_schema=..., **config): a caller's config with one of the two keys
\* is a duplicate keyword argument.
VertexConfigClash(gc) == HasKey(gc, "response_mime_type") \/ HasKey(gc, "response_schema")

\* The tool_choice of the TOOLS branch, per mode.
ToolChoice_named(m, name) == Named(name)

ToolChoice(m, name) == IF m = "MISTRAL_TOOLS" THEN Generic("any") ELSE Named(name)

\* The stream test of lines 235-240, and a variant that lets every model
\* stream.
StreamRefused_never(stream, wrapped) == FALSE

StreamRefused(stream, wrapped) == stream /\ wrapped # "IterableModel"

\* handle_response_model(response_model=rm, kwargs=kw, mode=m) of
\* process_response.py over the heap h of list objects.  new_kwargs is a
\* shallow copy of kw; heap is the heap after the call, and new_kwargs's
\* messages entry names the list object the request will hold ("own": a
\* list the handler built; "absent": the key was popped).
handle_response_model2(rm, kw, m, h) ==
    LET ret(raised, model, nkw, hp) ==
            [raised |-> raised, response_model |-> model, new_kwargs |-> nkw,
             heap |-> hp]
        wrapped == WrapModel(rm)
        name == SchemaName(wrapped)
        msgs == h[kw.messages]
        sysmsgs == SystemContents(msgs)
        hasSystem == kw.system # NoneContent
        gcItems == kw.generation_config.items
    IN  IF rm = "None" THEN ret("none", rm, kw, h)
        ELSE IF m = "PARALLEL_TOOLS" THEN
            IF kw.stream THEN ret("AssertionError", rm, kw, h)
            ELSE ret("none", "ParallelModel",
                     [kw EXCEPT !.tools = handle_parallel_model(rm),
                                !.tool_choice = Generic("auto")], h)
        ELSE IF StreamRefused(kw.stream, wrapped) THEN
            ret("NotImplementedError", wrapped, kw, h)
        ELSE IF m = "FUNCTIONS" THEN
            ret("none", wrapped,
                [kw EXCEPT !.functions = <<name>>, !.function_call = Named(name)], h)
        ELSE IF m \in {"TOOLS", "MISTRAL_TOOLS"} THEN
            ret("none", wrapped,
                [kw EXCEPT !.tools = <<name>>, !.tool_choice = ToolChoice(m, name)], h)
        ELSE IF m = "JSON" THEN
            ret("none", wrapped, [kw EXCEPT !.response_format = "json_object"],
                [h EXCEPT ![kw.messages] = InjectInstruction2(msgs)])
        ELSE IF m = "JSON_SCHEMA" THEN
            ret("none", wrapped,
                [kw EXCEPT !.response_format = "json_object with schema"],
                [h EXCEPT ![kw.messages] = InjectInstruction2(msgs)])
        ELSE IF m = "MD_JSON" THEN
            LET appended == Append(msgs, CodeblockRequest)
            IN  ret("none", wrapped, [kw EXCEPT !.messages = "own"],
                    [h EXCEPT ![kw.messages] = appended,
                              !.own = InjectInstruction2(merge_consecutive_messages(appended))])
        ELSE IF m = "ANTHROPIC_TOOLS" THEN
            IF hasSystem /\ sysmsgs # <<>> THEN
                ret("ValueError", wrapped,
                    [kw EXCEPT !.tools = <<name>>, !.tool_choice = Named(name)], h)
            ELSE ret("none", wrapped,
                     [kw EXCEPT !.tools = <<name>>, !.tool_choice = Named(name),
                                !.system = IF hasSystem THEN @ ELSE JoinContents(sysmsgs),
                                !.messages = "own"],
                     [h EXCEPT !.own = NonSystemMessages(msgs)])
        ELSE IF m = "ANTHROPIC_JSON" THEN
            IF hasSystem /\ sysmsgs # <<>> THEN ret("ValueError", wrapped, kw, h)
            ELSE ret("none", wrapped,
                     [kw EXCEPT !.system = IF hasSystem
                                           THEN @ \o AnthropicSchemaText
                                           ELSE <<>> \o Sep \o JoinContents(sysmsgs)
                                                \o AnthropicSchemaText,
                                !.messages = "own"],
                     [h EXCEPT !.own = merge_consecutive_messages(NonSystemMessages(msgs))])
        ELSE IF m = "COHERE_TOOLS" THEN
            ret("none", wrapped,
                [kw EXCEPT !.message = CohereInstruction,
                           !.chat_history = msgs,
                           !.messages = "absent"], h)
        ELSE IF m = "GEMINI_JSON" THEN
            IF kw.model # "absent" THEN ret("AssertionError", wrapped, kw, h)
            ELSE LET injected == InjectInstruction2(msgs)
                     gc == MapSampling(kw,
                               DictUnion(gcItems, {<<"response_mime_type", "application/json">>}))
                 IN  ret("none", wrapped,
                         [PopSampling(kw) EXCEPT
                             !.generation_config = Dict(gc),
                             !.contents = transform_to_gemini_prompt(injected),
                             !.safety_settings = Dict(DictUnion(kw.safety_settings.items, DefaultSafety)),
                             !.messages = "absent"],
                         [h EXCEPT ![kw.messages] = injected])
        ELSE IF m = "VERTEXAI_TOOLS" THEN
            ret("none", wrapped,
                [kw EXCEPT !.contents = vertexai_message_list_parser(msgs),
                           !.tools = <<name>>, !.tool_config = "ANY",
                           !.messages = "absent"], h)
        ELSE IF m = "VERTEXAI_JSON" THEN
            IF VertexConfigClash(gcItems) THEN ret("TypeError", wrapped, kw, h)
            ELSE ret("none", wrapped,
                     [kw EXCEPT !.contents = vertexai_message_list_parser(msgs),
                                !.generation_config =
                                    Dict(gcItems \cup {<<"response_mime_type", "application/json">>,
                                                       <<"response_schema", "gemini schema">>}),
                                !.messages = "absent"], h)
        ELSE ret("ValueError", wrapped, kw, h)

\* The handler the installed generation runs, with the heap after it.
Handle(im, rm, kw, m, h) ==
    IF im = "patch"
    THEN LET r == handle_response_model(rm, kw, m, h[kw.messages])
         IN  [raised |-> r.raised, response_model |-> r.response_model,
              new_kwargs |-> r.new_kwargs,
              heap |-> [h EXCEPT ![kw.messages] = r.messages]]
    ELSE handle_response_model2(rm, kw, m, h)

----------------------------------------------------------------------------
(* The create wrapper: new_chatcompletion_sync up to the first loop test *)

\* The keyword arguments a caller passes: streaming or not; under the
\* Anthropic modes with or without a top-level system string; under
\* GEMINI_JSON with or without a model entry.
CallerKwargs(m) ==
    {[Kwargs(stream) EXCEPT !.system = sys, !.model = mdl] :
        stream \in BOOLEAN,
        sys \in (IF m \in AnthropicModes
                 THEN {NoneContent, <<Tok("caller system string", 0)>>}
                 ELSE {NoneContent}),
        mdl \in (IF m = "GEMINI_JSON" THEN {"absent", "gemini"} ELSE {"gpt"})}

\* The default of the max_retries parameter of new_chatcompletion_sync and
\* new_chatcompletion_async.
DefaultMaxRetries == 1

\* A create call whose max_retries is one of budgets: the handler runs, then
\* the loop starts.
CreateWith(budgets) ==
    /\ pc = "idle"
    /\ \E rm \in ResponseModelsFor(mode), mr \in budgets,
          kw \in CallerKwargs(mode) :
        LET h == Handle(impl, rm, kw, mode, heap)
        IN  /\ caller_kwargs' = kw
            /\ orig_messages' = heap[kw.messages]
            /\ heap' = h.heap
            /\ response_model' = h.response_model
            /\ new_kwargs' = h.new_kwargs
            /\ max_retries' = mr
            /\ IF h.raised = "none"
               THEN /\ pc' = "attempt"
                    /\ error' = error
               ELSE /\ pc' = "raised"
                    /\ error' = Exc(h.raised, <<>>)
    /\ retries' = 0
    /\ total_usage' = ZeroUsage
    /\ UNCHANGED <<peer, schema, partial, mode, impl, surface, response, calls, sent, history, result>>

\* create(..., max_retries=mr, ...) with the argument passed.
Create == CreateWith(-1 .. MaxRetries)

\* create(...) without a max_retries argument.
CreateDefault == CreateWith({DefaultMaxRetries})

----------------------------------------------------------------------------
(* The transport's responses and the parse *)

\* response.choices[0].message of the response numbered id.
ResponseMessage(resp) ==
    [role |-> "assistant",
     content |-> IF resp.shape = "text" THEN <<Tok("completion", resp.id)>> ELSE NoneContent,
     tool_calls |-> IF resp.shape = "tool" THEN resp.id ELSE 0,
     function_call |-> IF resp.shape = "function" THEN resp.id ELSE 0]

\* The message with role and `content or ""` only: the payload of the call
\* is left out of the content.
dump_message_bare(message) ==
    Msg(message.role, IF message.content = NoneContent THEN <<>> ELSE message.content)

\* dump_message: role and `content or ""`; the tool calls are kept and their
\* JSON text is added to the content; the JSON text of a function call is
\* added to the content.
dump_message(message) ==
    LET base == IF message.content = NoneContent THEN <<>> ELSE message.content
        withTools == IF message.tool_calls # 0
                     THEN base \o <<Tok("json.dumps(tool_calls)", message.tool_calls)>>
                     ELSE base
        withFunc == IF message.function_call # 0
                    THEN withTools \o <<Tok("json.dumps(function_call)", message.function_call)>>
                    ELSE withTools
    IN  [Msg(message.role, withFunc) EXCEPT !.tool_calls = message.tool_calls]

\* What validating the payload gives.
ValidatePayload(payload) ==
    CASE payload = "valid" -> "ok"
      [] payload = "invalid" -> "ValidationError"
      [] OTHER -> "JSONDecodeError"

\* response_model.from_response: extract the payload the mode reads (the
\* function call, the tool calls, or the text), parse it and validate it.  A
\* function/tool mode reading a message without that call fails with an error
\* that is neither a ValidationError nor a DecodeError; a JSON mode reading a
\* message without text fails validation.  The other providers' modes read
\* the provider's own response object.
from_response(resp, payload, m) ==
    CASE m = "FUNCTIONS" ->
            IF resp.shape = "function" THEN ValidatePayload(payload) ELSE "AttributeError"
      [] m \in {"TOOLS", "PARALLEL_TOOLS", "MISTRAL_TOOLS"} ->
            IF resp.shape = "tool" THEN ValidatePayload(payload) ELSE "TypeError"
      [] m \in AnthropicModes \cup NoMessagesModes ->
            IF resp.shape = "native" THEN ValidatePayload(payload) ELSE "AttributeError"
      [] OTHER ->
            IF resp.shape = "text" THEN ValidatePayload(payload)
            ELSE IF resp.shape = "stream" THEN "AttributeError"
            ELSE "ValidationError"

\* ParallelBase.from_response, reading the calls back to front.
ParallelFromResponse_reversed(names) ==
    [i \in 1 .. Len(names) |-> names[Len(names) + 1 - i]]

\* ParallelBase.from_response: one instance per tool call, of the union
\* member registered under the call's function name, in the order of the
\* calls.
ParallelFromResponse(names) ==
    [i \in 1 .. Len(names) |->
        CHOOSE c \in {UnionMembers[j] : j \in 1 .. Len(UnionMembers)} : c = names[i]]

\* No response model counts as a ParallelBase.
IsParallelInstance_never(rm) == FALSE

\* isinstance(response_model, ParallelBase)
IsParallelInstance(rm) == rm = "ParallelModel"

\* process_response of patch.py.  isinstance(response_model, IterableBase) is
\* asked of a class, so it never holds; a ParallelModel is an instance of
\* ParallelBase.
process_response(resp, rm, stream, payload, items, m) ==
    LET parsed == from_response(resp, payload, m)
        ret(raised, kind, cls, raw, its) ==
            [raised |-> raised, result |-> Result(kind, cls, raw, its)]
    IN  IF rm = "None" THEN ret("none", "raw_response", "", resp.id, <<>>)
        ELSE IF rm = "IterableModel" /\ stream THEN ret("none", "generator", rm, 0, <<>>)
        ELSE IF parsed # "ok" THEN ret(parsed, "none", "", 0, <<>>)
        ELSE IF IsParallelInstance(rm) THEN
            ret("none", "parallel", rm, 0, ParallelFromResponse(items))
        ELSE ret("none", "model", rm, resp.id, items)

\* isinstance(model, IterableBase) asked of the parsed instance.
IsIterableInstance(rm) == rm = "IterableModel"

\* process_response of process_response.py: the tasks of an IterableModel
\* are returned as a list; the other instances carry _raw_response.
process_response2(resp, rm, stream, payload, items, m) ==
    LET parsed == from_response(resp, payload, m)
        ret(raised, kind, cls, raw, its) ==
            [raised |-> raised, result |-> Result(kind, cls, raw, its)]
    IN  IF rm = "None" THEN ret("none", "raw_response", "", resp.id, <<>>)
        ELSE IF rm = "IterableModel" /\ stream THEN ret("none", "generator", rm, 0, <<>>)
        ELSE IF parsed # "ok" THEN ret(parsed, "none", "", 0, <<>>)
        ELSE IF IsIterableInstance(rm) THEN ret("none", "list", "", 0, items)
        ELSE IF IsParallelInstance(rm) THEN
            ret("none", "parallel", rm, 0, ParallelFromResponse(items))
        ELSE ret("none", "model", rm, resp.id, items)

\* The parser the installed generation runs.
Process(im, resp, rm, stream, payload, items, m) ==
    IF im = "patch" THEN process_response(resp, rm, stream, payload, items, m)
    ELSE process_response2(resp, rm, stream, payload, items, m)

----------------------------------------------------------------------------
(* retry_sync and retry_async: the same loop, one per surface *)

\* Off by one: the loop stops one attempt early.
LoopTest_strict(r, mr) == r < mr

\* The while test.
LoopTest(r, mr) == r <= mr

\* A bare except: every exception is retried.
Retriable_any(kind) == kind = kind

\* except (ValidationError, JSONDecodeError)
Retriable(kind) == kind \in {"ValidationError", "JSONDecodeError"}

\* The total is overwritten with the latest usage instead of added to.
Accumulate_overwrite(total, u) == u

\* Lines 347-353: the usage of a ChatCompletion is added to the running total.
Accumulate(total, u) == AddUsage(total, u)

\* Off by one: the budget counts as used up one failure too late.
Exhausted_late(r, mr) == r > mr + 1

\* Line 389: the retry budget is used up.
Exhausted(r, mr) == r > mr

\* The fixed sentence of the corrective user message (retry_sync line 378,
\* retry_async line 315).
Sentence(sf) ==
    IF sf = "sync"
    THEN Tok("Recall the function correctly, fix the errors and exceptions found", 0)
    ELSE Tok("Recall the function correctly, fix the errors, exceptions found", 0)

\* The text of the corrective user message: the fixed sentence, then str(e).
Corrective(e, sf) == <<Sentence(sf), Tok(e.kind, e.id)>>

\* The content of the tool message (retry_sync line 371, retry_async line 308).
ToolContent(e, sf) ==
    IF sf = "sync" THEN Corrective(e, sf) ELSE <<Tok("failure", 0)>>

\* The messages one except block appends, in order (retry_sync lines 365-387,
\* retry_async lines 302-324).
CorrectiveTurn(e, resp, m, sf) ==
    (IF m = "TOOLS"
     THEN <<[Msg("tool", ToolContent(e, sf)) EXCEPT !.tool_call_id = resp.id,
                                                    !.name = "function.name"]>>
     ELSE <<>>)
    \o <<dump_message(ResponseMessage(resp))>>
    \o <<Msg("user", Corrective(e, sf))>>
    \o (IF m = "MD_JSON" THEN <<Msg("assistant", <<Tok("json fence", 0)>>)>> ELSE <<>>)

\* The except block (retry_sync lines 362-391, retry_async lines 299-327,
\* the same statements) for the exception e, resp being the value
\* of the local variable response, msgs the list kwargs["messages"].  raised
\* is the exception that leaves the block, or NoError.  kwargs["messages"]
\* of a mapping without that key raises KeyError; a response that is not a
\* ChatCompletion has no choices.
retry_except(e, resp, msgs, r, mr, m, sf) ==
    IF resp.shape = "unbound" THEN
        [messages |-> msgs, retries |-> r, raised |-> Exc("UnboundLocalError", <<e.kind>>)]
    ELSE IF msgs = NoList THEN
        [messages |-> msgs, retries |-> r, raised |-> Exc("KeyError", <<e.kind>>)]
    ELSE IF resp.shape \in {"stream", "native"} THEN
        [messages |-> msgs, retries |-> r, raised |-> Exc("AttributeError", <<e.kind>>)]
    ELSE IF m = "TOOLS" /\ resp.shape # "tool" THEN
        [messages |-> msgs, retries |-> r, raised |-> Exc("TypeError", <<e.kind>>)]
    ELSE
        [messages |-> msgs \o CorrectiveTurn(e, resp, m, sf),
         retries |-> r + 1,
         raised |-> IF Exhausted(r + 1, mr) THEN Exc(e.kind, <<>>) ELSE NoError]

\* The state after the except block.
AfterExcept(x) ==
    /\ heap' = IF new_kwargs.messages = "absent" THEN heap
               ELSE [heap EXCEPT ![new_kwargs.messages] = x.messages]
    /\ retries' = x.retries
    /\ error' = x.raised
    /\ pc' = IF x.raised = NoError THEN "attempt" ELSE "raised"
    /\ result' = result

\* The shapes the transport's response can have under mode m.
ShapesOf(m, stream) ==
    IF stream THEN {"stream"}
    ELSE IF m \in AnthropicModes \cup NoMessagesModes THEN {"native"}
    ELSE Shapes

\* The element classes a response that parses carries: the names of its
\* tool calls under a union, its tasks under an iterable model.
RECURSIVE SeqsUpTo(_, _)
SeqsUpTo(S, n) ==
    IF n = 0 THEN {<<>>}
    ELSE LET shorter == SeqsUpTo(S, n - 1)
         IN  shorter \cup {Append(q, x) : q \in {p \in shorter : Len(p) = n - 1}, x \in S}

ItemsOf(rm, parsed, stream) ==
    IF parsed # "ok" \/ stream THEN {<<>>}
    ELSE IF rm = "ParallelModel"
    THEN SeqsUpTo({UnionMembers[j] : j \in 1 .. Len(UnionMembers)}, MaxItems) \ {<<>>}
    ELSE IF rm = "IterableModel" THEN SeqsUpTo({"UserDetail"}, MaxItems)
    ELSE {<<>>}

\* The transport is invoked with the request as it stands: invocation id.
Invoked(id) ==
    /\ sent' = [kwargs |-> new_kwargs, messages |-> Deref(heap, new_kwargs.messages)]
    /\ calls' = id

\* Invocation id returns a response: the rest of the try block, and the
\* except block when the parse raises.
Received(id) ==
    /\ \E shape \in ShapesOf(mode, new_kwargs.stream),
          payload \in Payloads,
          u \in (IF new_kwargs.stream THEN {NoUsage} ELSE Usages \cup {NoUsage}) :
      \E items \in ItemsOf(response_model,
                            from_response([shape |-> shape], payload, mode),
                            new_kwargs.stream) :
        LET counted == shape \notin {"stream", "native"} /\ u # NoUsage
            resp == [id |-> id, shape |-> shape,
                     usage |-> IF counted THEN "total_usage" ELSE "None"]
            pr == Process(impl, resp, response_model, new_kwargs.stream, payload,
                          items, mode)
        IN  /\ total_usage' = IF counted THEN Accumulate(total_usage, u) ELSE total_usage
            /\ response' = resp
            /\ history' = Append(history,
                    [source |-> "response",
                     outcome |-> IF pr.raised = "none" THEN "ok" ELSE pr.raised,
                     usage |-> u, items |-> items])
            /\ IF pr.raised = "none" THEN
                    /\ pc' = "returned"
                    /\ result' = pr.result
                    /\ UNCHANGED <<heap, retries, error>>
               ELSE IF Retriable(pr.raised) THEN
                    AfterExcept(retry_except([kind |-> pr.raised, id |-> id], resp,
                                             Deref(heap, new_kwargs.messages), retries,
                                             max_retries, mode, surface))
               ELSE /\ pc' = "raised"
                    /\ error' = Exc(pr.raised, <<>>)
                    /\ UNCHANGED <<heap, retries, result>>

\* One iteration in which the transport returns a response.
AttemptResponse ==
    /\ pc = "attempt"
    /\ LoopTest(retries, max_retries)
    /\ Invoked(calls + 1)
    /\ Received(calls + 1)
    /\ UNCHANGED <<peer, schema, partial, mode, impl, surface, orig_messages, caller_kwargs, response_model, new_kwargs,
                   max_retries>>

\* What the transport raises instead of returning.
TransportErrors == {"AuthenticationError", "ValidationError"}

\* Invocation id raises instead of returning: the local variable response
\* keeps the value it had.
Raised(id) ==
    /\ \E kind \in TransportErrors :
        /\ history' = Append(history,
                [source |-> "transport", outcome |-> kind, usage |-> NoUsage,
                 items |-> <<>>])
        /\ IF Retriable(kind) THEN
                AfterExcept(retry_except([kind |-> kind, id |-> id], response,
                                         Deref(heap, new_kwargs.messages), retries,
                                         max_retries, mode, surface))
           ELSE /\ pc' = "raised"
                /\ error' = Exc(kind, <<>>)
                /\ UNCHANGED <<heap, retries, result>>

\* One iteration in which the transport raises.
AttemptTransportRaises ==
    /\ pc = "attempt"
    /\ LoopTest(retries, max_retries)
    /\ Invoked(calls + 1)
    /\ Raised(calls + 1)
    /\ UNCHANGED <<peer, schema, partial, mode, impl, surface, orig_messages, caller_kwargs, response_model, new_kwargs,
                   max_retries, total_usage, response>>

\* The while test fails: the function ends without a return statement.
LoopExit ==
    /\ pc = "attempt"
    /\ ~LoopTest(retries, max_retries)
    /\ pc' = "returned"
    /\ result' = Result("None", "", 0, <<>>)
    /\ UNCHANGED <<peer, schema, partial, mode, impl, surface, heap, orig_messages, caller_kwargs, response_model,
                   new_kwargs, max_retries, retries, total_usage, response, calls,
                   sent, history, error>>

Next == Create \/ AttemptResponse \/ AttemptTransportRaises \/ LoopExit

Spec == Init /\ [][Next]_vars

\* The same call under the scheduling of a sequential program: a step that
\* can be taken is taken (the transport answers or raises).
FairSpec == Spec /\ WF_vars(Next)

\* The same call over every mode of the installed dispatch.
ProviderSpec == ProviderInit /\ [][Next]_vars

\* The call made without a max_retries argument.  The while test never fails
\* on entry under the default, so the loop is never left by fall-through.
DefaultNext == CreateDefault \/ AttemptResponse \/ AttemptTransportRaises

DefaultSpec == Init /\ [][DefaultNext]_vars

----------------------------------------------------------------------------
(* retry_async with its suspension point (AsyncSpec) *)

\* retry_async up to its await: the transport coroutine is started with the
\* request as it stands and the loop is suspended.
Invoke ==
    /\ pc = "attempt"
    /\ LoopTest(retries, max_retries)
    /\ Invoked(calls + 1)
    /\ pc' = "awaiting"
    /\ UNCHANGED <<peer, schema, partial, mode, impl, surface, heap, orig_messages,
                   caller_kwargs, response_model, new_kwargs, max_retries, retries,
                   total_usage, response, history, result, error>>

\* The await resumes with the transport's response.
Resume ==
    /\ pc = "awaiting"
    /\ Received(calls)
    /\ UNCHANGED <<peer, schema, partial, mode, impl, surface, orig_messages,
                   caller_kwargs, response_model, new_kwargs, max_retries, calls, sent>>

\* The await resumes with an exception of the transport.
ResumeRaises ==
    /\ pc = "awaiting"
    /\ Raised(calls)
    /\ UNCHANGED <<peer, schema, partial, mode, impl, surface, orig_messages,
                   caller_kwargs, response_model, new_kwargs, max_retries, calls, sent,
                   total_usage, response>>

\* The task is cancelled while suspended: the await raises CancelledError,
\* which goes through the except clause like any exception.
Cancel ==
    /\ pc = "awaiting"
    /\ history' = Append(history,
            [source |-> "cancelled", outcome |-> "CancelledError", usage |-> NoUsage,
             items |-> <<>>])
    /\ IF Retriable("CancelledError") THEN
            AfterExcept(retry_except([kind |-> "CancelledError", id |-> calls], response,
                                     Deref(heap, new_kwargs.messages), retries,
                                     max_retries, mode, surface))
       ELSE /\ pc' = "raised"
            /\ error' = Exc("CancelledError", <<>>)
            /\ UNCHANGED <<heap, retries, result>>
    /\ UNCHANGED <<peer, schema, partial, mode, impl, surface, orig_messages,
                   caller_kwargs, response_model, new_kwargs, max_retries, calls, sent,
                   total_usage, response>>

\* A client whose create is a coroutine function.
AsyncInit == Init /\ surface = "async"

AsyncNext == Create \/ Invoke \/ Resume \/ ResumeRaises \/ Cancel \/ LoopExit

AsyncSpec == AsyncInit /\ [][AsyncNext]_vars

----------------------------------------------------------------------------
(* Two create calls on one event loop (ConcurrentSpec) *)

\* The largest max_retries of the first of two calls that run together.
MaxConcurrentRetries == 1

\* The locals of the second call before it is made.
PeerStart ==
    [pc |-> "idle", response_model |-> "None", new_kwargs |-> Kwargs(FALSE),
     max_retries |-> 0, retries |-> 0, total_usage |-> ZeroUsage,
     response |-> Unbound, calls |-> 0, sent |-> NoRequest, history |-> <<>>,
     result |-> NoResult, error |-> NoError]

\* The second call is made with the response model and the request mapping
\* the caller passed to the first one, messages list included, and with
\* max_retries=0: its handler runs, then its loop starts.
PeerCreate ==
    /\ pc # "idle"
    /\ peer.pc = "idle"
    /\ \E rm \in ResponseModelsFor(mode) :
        LET h == Handle(impl, rm, caller_kwargs, mode, heap)
        IN  /\ h.response_model = response_model
            /\ heap' = h.heap
            /\ peer' = [peer EXCEPT
                    !.response_model = h.response_model,
                    !.new_kwargs = h.new_kwargs,
                    !.max_retries = 0,
                    !.pc = IF h.raised = "none" THEN "attempt" ELSE "raised",
                    !.error = IF h.raised = "none" THEN NoError ELSE Exc(h.raised, <<>>)]
    /\ UNCHANGED <<schema, partial, mode, impl, surface, pc, orig_messages,
                   caller_kwargs, response_model, new_kwargs, max_retries, retries,
                   total_usage, response, calls, sent, history, result, error>>

\* The second call starts a transport invocation and is suspended.
PeerInvoke ==
    /\ peer.pc = "attempt"
    /\ LoopTest(peer.retries, peer.max_retries)
    /\ peer' = [peer EXCEPT
            !.pc = "awaiting",
            !.calls = @ + 1,
            !.sent = [kwargs |-> peer.new_kwargs,
                      messages |-> Deref(heap, peer.new_kwargs.messages)]]
    /\ UNCHANGED <<schema, partial, mode, impl, surface, pc, heap, orig_messages,
                   caller_kwargs, response_model, new_kwargs, max_retries, retries,
                   total_usage, response, calls, sent, history, result, error>>

\* The second call's await resumes with a response: the rest of its try
\* block, and its except block when the parse raises.  Its responses are
\* numbered below zero, the first call's above.
PeerResume ==
    /\ peer.pc = "awaiting"
    /\ \E shape \in ShapesOf(mode, peer.new_kwargs.stream),
          payload \in Payloads,
          u \in (IF peer.new_kwargs.stream THEN {NoUsage} ELSE Usages \cup {NoUsage}) :
      \E items \in ItemsOf(peer.response_model,
                            from_response([shape |-> shape], payload, mode),
                            peer.new_kwargs.stream) :
        LET id == 0 - peer.calls
            counted == shape \notin {"stream", "native"} /\ u # NoUsage
            resp == [id |-> id, shape |-> shape,
                     usage |-> IF counted THEN "total_usage" ELSE "None"]
            pr == Process(impl, resp, peer.response_model, peer.new_kwargs.stream,
                          payload, items, mode)
            tried == [peer EXCEPT
                        !.total_usage = IF counted THEN Accumulate(@, u) ELSE @,
                        !.response = resp,
                        !.history = Append(@,
                            [source |-> "response",
                             outcome |-> IF pr.raised = "none" THEN "ok" ELSE pr.raised,
                             usage |-> u, items |-> items])]
            x == retry_except([kind |-> pr.raised, id |-> id], resp,
                              Deref(heap, peer.new_kwargs.messages), peer.retries,
                              peer.max_retries, mode, surface)
        IN  IF pr.raised = "none" THEN
                /\ peer' = [tried EXCEPT !.pc = "returned", !.result = pr.result]
                /\ heap' = heap
            ELSE IF Retriable(pr.raised) THEN
                /\ peer' = [tried EXCEPT
                        !.retries = x.retries,
                        !.error = x.raised,
                        !.pc = IF x.raised = NoError THEN "attempt" ELSE "raised"]
                /\ heap' = IF peer.new_kwargs.messages = "absent" THEN heap
                           ELSE [heap EXCEPT ![peer.new_kwargs.messages] = x.messages]
            ELSE
                /\ peer' = [tried EXCEPT !.pc = "raised", !.error = Exc(pr.raised, <<>>)]
                /\ heap' = heap
    /\ UNCHANGED <<schema, partial, mode, impl, surface, pc, orig_messages,
                   caller_kwargs, response_model, new_kwargs, max_retries, retries,
                   total_usage, response, calls, sent, history, result, error>>

\* Two calls about to be made on a client whose create is a coroutine
\* function.
ConcurrentInit ==
    /\ impl = "patch"
    /\ mode \in Modes
    /\ surface = "async"
    /\ CallLocals
    /\ peer = PeerStart
    /\ schema = NoSchema
    /\ partial = NoStream

\* The event loop runs one call up to its next await, then any call that can
\* go on.
ConcurrentNext ==
    \/ CreateWith(0 .. MaxConcurrentRetries) \/ Invoke \/ Resume
    \/ PeerCreate \/ PeerInvoke \/ PeerResume

ConcurrentSpec == ConcurrentInit /\ [][ConcurrentNext]_vars

----------------------------------------------------------------------------
(* Iterating a Partial stream (StreamSpec) *)

\* The JSON text the provider streams for "Jason Liu is 12 years old", in
\* the pieces a chunk boundary can fall between.
JsonText == <<"{", "\"name\":", "\"J", "ason\"", ",", "\"age\":", "12}">>

\* The value of a field the text read so far does not hold.
Unseen == "None"

\* The snapshot always built from the whole text.
Snapshot_complete(n) ==
    [cls |-> "UserExtract", name |-> "Jason", age |-> "12"]

\* The snapshot built from the first n pieces of the text: an instance of
\* the target schema whose fields hold what the text read so far gives them.
Snapshot(n) ==
    [cls |-> "UserExtract",
     name |-> IF \E i \in 1 .. n : JsonText[i] = "ason\"" THEN "Jason"
              ELSE IF \E i \in 1 .. n : JsonText[i] = "\"J" THEN "J"
              ELSE Unseen,
     age |-> IF \E i \in 1 .. n : JsonText[i] = "12}" THEN "12" ELSE Unseen]

\* The streams: the text cut into chunks at any of the places between its
\* pieces.  cuts holds the lengths of the text at the chunk ends.
Streams ==
    {[pc |-> "open", cuts |-> c \cup {Len(JsonText)}, read |-> 0, yielded |-> <<>>,
      again |-> <<>>] : c \in SUBSET (1 .. Len(JsonText) - 1)}

\* create(response_model=Partial[UserExtract], stream=True) has returned the
\* generator over a stream; nothing has been read.
StreamInit ==
    /\ impl = "process_response"
    /\ mode \in Modes
    /\ CallLocals
    /\ peer = NoPeer
    /\ schema = NoSchema
    /\ partial \in Streams

\* The caller's loop asks for the next item: the next chunk is read and the
\* snapshot of the text so far is yielded.
NextSnapshot ==
    /\ partial.pc = "open"
    /\ partial.read < Len(JsonText)
    /\ LET upto == CHOOSE c \in partial.cuts :
                    /\ c > partial.read
                    /\ \A d \in partial.cuts : d > partial.read => c <= d
       IN  partial' = [partial EXCEPT !.read = upto,
                                      !.yielded = Append(@, Snapshot(upto))]
    /\ UNCHANGED <<peer, schema, mode, impl, surface, pc, heap, orig_messages,
                   caller_kwargs, response_model, new_kwargs, max_retries, retries,
                   total_usage, response, calls, sent, history, result, error>>

\* The stream signals completion: the generator ends.
StreamEnds ==
    /\ partial.pc = "open"
    /\ partial.read = Len(JsonText)
    /\ partial' = [partial EXCEPT !.pc = "exhausted"]
    /\ UNCHANGED <<peer, schema, mode, impl, surface, pc, heap, orig_messages,
                   caller_kwargs, response_model, new_kwargs, max_retries, retries,
                   total_usage, response, calls, sent, history, result, error>>

\* The caller iterates the exhausted generator a second time: it ends at
\* once.
IterateAgain ==
    /\ partial.pc = "exhausted"
    /\ partial' = [partial EXCEPT !.pc = "iterated twice", !.again = <<>>]
    /\ UNCHANGED <<peer, schema, mode, impl, surface, pc, heap, orig_messages,
                   caller_kwargs, response_model, new_kwargs, max_retries, retries,
                   total_usage, response, calls, sent, history, result, error>>

StreamNext == NextSnapshot \/ StreamEnds \/ IterateAgain

StreamSpec == StreamInit /\ [][StreamNext]_vars

----------------------------------------------------------------------------
(* The mode handlers alone, over a wider range of caller inputs *)

Roles == {"system", "user", "assistant"}

\* The conversations of up to MaxConv messages, the i-th with its own text.
Conversations ==
    {[i \in 1 .. Len(rs) |-> Msg(rs[i], <<Tok("caller text", i)>>)] :
        rs \in SeqsUpTo(Roles, MaxConv) \ {<<>>}}

\* The value a caller passes for a sampling parameter.
CallerValue ==
    [max_tokens |-> "100", temperature |-> "0.5", n |-> "2", top_p |-> "0.9",
     stop |-> "END"]

\* generation_config and safety_settings entries a caller may pass.
CallerGenerationConfigs ==
    {NoDict, Dict({}), Dict({<<"top_k", "40">>}),
     Dict({<<"top_k", "40">>, <<"max_output_tokens", "7">>,
           <<"response_mime_type", "text/plain">>})}

CallerSafetySettings ==
    {NoDict,
     Dict({<<"HARM_CATEGORY_SEXUALLY_EXPLICIT", "BLOCK_NONE">>}),
     Dict({<<"HARM_CATEGORY_HATE_SPEECH", "BLOCK_NONE">>,
           <<"HARM_CATEGORY_SEXUALLY_EXPLICIT", "BLOCK_NONE">>})}

\* A sampling parameter is not passed, passed as None, or passed with a value.
ParamChoices(k) == {"absent", "None", CallerValue[k]}

GeminiKwargs ==
    {[Kwargs(FALSE) EXCEPT !.model = mdl, !.max_tokens = mt, !.temperature = te,
                           !.n = nn, !.top_p = tp, !.stop = st,
                           !.generation_config = gc, !.safety_settings = ss] :
        mdl \in {"absent", "gemini"},
        mt \in ParamChoices("max_tokens"), te \in ParamChoices("temperature"),
        nn \in ParamChoices("n"), tp \in ParamChoices("top_p"),
        st \in ParamChoices("stop"),
        gc \in CallerGenerationConfigs, ss \in CallerSafetySettings}

TransformKwargs(m) ==
    IF m = "GEMINI_JSON" THEN GeminiKwargs
    ELSE IF m = "VERTEXAI_JSON"
    THEN {[Kwargs(FALSE) EXCEPT !.generation_config = gc] : gc \in CallerGenerationConfigs}
    ELSE CallerKwargs(m)

TransformConversations(m) ==
    IF m = "GEMINI_JSON" THEN CallerConversations ELSE Conversations

\* The caller's arguments are chosen; nothing has run.
TransformInit ==
    /\ impl \in Impls
    /\ mode \in ModesOf(impl)
    /\ surface = "sync"
    /\ pc = "idle"
    /\ \E conv \in TransformConversations(mode) : heap = [caller |-> conv, own |-> <<>>]
    /\ orig_messages = heap.caller
    /\ caller_kwargs \in TransformKwargs(mode)
    /\ response_model \in ResponseModelsFor(mode)
    /\ new_kwargs = caller_kwargs
    /\ max_retries = 0
    /\ retries = 0
    /\ total_usage = ZeroUsage
    /\ response = Unbound
    /\ calls = 0
    /\ sent = NoRequest
    /\ history = <<>>
    /\ result = NoResult
    /\ error = NoError
    /\ peer = NoPeer
    /\ schema = NoSchema
    /\ partial = NoStream

\* handle_response_model runs on the caller's arguments.
Transform ==
    /\ pc = "idle"
    /\ LET h == Handle(impl, response_model, caller_kwargs, mode, heap)
       IN  /\ heap' = h.heap
           /\ response_model' = h.response_model
           /\ new_kwargs' = h.new_kwargs
           /\ IF h.raised = "none"
              THEN /\ pc' = "transformed"
                   /\ error' = error
              ELSE /\ pc' = "raised"
                   /\ error' = Exc(h.raised, <<>>)
    /\ UNCHANGED <<peer, schema, partial, mode, impl, surface, orig_messages, caller_kwargs, max_retries,
                   retries, total_usage, response, calls, sent, history, result>>

TransformNext == Transform

TransformSpec == TransformInit /\ [][TransformNext]_vars

----------------------------------------------------------------------------
(* Vocabulary of the properties *)

Terminal == pc \in {"returned", "raised"}

\* The conversation the transport is given.
Conversation == Deref(heap, new_kwargs.messages)

\* Attempt i got a response that failed to parse or validate.
FailedValidation(i) ==
    /\ history[i].source = "response"
    /\ history[i].outcome \in {"ValidationError", "JSONDecodeError"}

\* Attempt i got a response that parsed and validated.
Validated(i) ==
    /\ history[i].source = "response"
    /\ history[i].outcome = "ok"

IsCorrectiveUser(msg) ==
    /\ msg.role = "user"
    /\ Len(msg.content) = 2
    /\ msg.content[1] \in {Sentence("sync"), Sentence("async")}

\* msg is the assistant message of response k as dump_message renders it.
IsFailingAssistant(msg, k) ==
    \E shape \in Shapes :
        msg = dump_message(ResponseMessage([id |-> k, shape |-> shape, usage |-> "None"]))

\* The positions of the corrective-turn pairs: a failing assistant message
\* directly followed by the corrective user message quoting its error.
CorrectivePairs(msgs) ==
    { i \in 1 .. Len(msgs) - 1 :
        /\ IsCorrectiveUser(msgs[i + 1])
        /\ IsFailingAssistant(msgs[i], msgs[i + 1].content[2][2]) }

CorrectiveUsers(msgs) == { i \in 1 .. Len(msgs) : IsCorrectiveUser(msgs[i]) }

RECURSIVE SumUsage(_, _)
\* The component-wise sum of the usages the transport reported in attempts 1..n.
SumUsage(h, n) ==
    IF n = 0 THEN ZeroUsage
    ELSE LET rest == SumUsage(h, n - 1)
         IN  IF h[n].usage = NoUsage THEN rest
             ELSE <<rest[1] + h[n].usage[1], rest[2] + h[n].usage[2],
                    rest[3] + h[n].usage[3]>>

\* The usage field of the response the local variable names.
UsageOf(resp) == IF resp.usage = "total_usage" THEN total_usage ELSE NoUsage

----------------------------------------------------------------------------
(* Claims *)

\* What C1 says of every state of a call with max_retries >= 0.
C1_Bounded ==
    (pc # "idle" /\ max_retries >= 0) =>
        /\ calls = Len(history)
        /\ calls <= max_retries + 1
        \* a further transport invocation is possible only within the budget
        /\ pc = "attempt" => calls <= max_retries
        \* every response before the latest one failed: the first valid one ends the call
        /\ \A i \in 1 .. Len(history) - 1 :
                history[i].outcome \in {"ValidationError", "JSONDecodeError"}
        /\ (history # <<>> /\ Validated(Len(history))) => pc = "returned"
        \* the (max_retries + 1)-th consecutive failure is terminal
        /\ (Len(history) = max_retries + 1 /\ ~Validated(Len(history))) => pc = "raised"

\* C1: with max_retries >= 0 a create call invokes the transport at most
\* max_retries + 1 times, returns on the first response that parses and
\* validates, ends in failure after the (max_retries + 1)-th consecutive
\* ValidationError/DecodeError without invoking the transport again, and
\* always terminates.
C1_AtMostMaxRetriesPlusOneThenTerminates ==
    /\ []C1_Bounded
    /\ <>Terminal

\* The budget is used up: max_retries + 1 invocations, all failed validation.
C1_Witness ==
    /\ pc = "raised"
    /\ max_retries = MaxRetries
    /\ calls = max_retries + 1
    /\ \A i \in 1 .. Len(history) : FailedValidation(i)
    /\ error.kind \in {"ValidationError", "JSONDecodeError"}

\* C2: with max_retries = N, after k <= N responses that all failed
\* validation the call is about to invoke the transport again and exactly k
\* corrective-turn pairs (the failing assistant message of each failed attempt
\* directly followed by the corrective user message) have been appended; when
\* the (k+1)-th response validates the call has returned its result on
\* attempt k+1 with exactly k pairs appended.
C2_SucceedsOnAttemptKPlusOne ==
    LET n == Len(history)
        k == Cardinality({i \in 1 .. n : FailedValidation(i)})
        pairs == CorrectivePairs(Conversation)
        counted == /\ Cardinality(pairs) = k
                   /\ Cardinality(CorrectiveUsers(Conversation)) = k
                   /\ \A j \in 1 .. k : \E i \in pairs : IsFailingAssistant(Conversation[i], j)
    IN  (pc # "idle" /\ max_retries >= 0 /\ n >= 1) =>
            /\ (k = n /\ k <= max_retries) =>
                    /\ pc = "attempt"
                    /\ calls = k
                    /\ counted
            /\ (k = n - 1 /\ Validated(n)) =>
                    /\ pc = "returned"
                    /\ result.kind \in {"raw_response", "model", "parallel", "generator", "list"}
                    /\ calls = k + 1
                    /\ counted

\* Two invalid responses, then a valid one, with max_retries = 2.
C2_Witness ==
    /\ pc = "returned"
    /\ max_retries = 2
    /\ Len(history) = 3
    /\ FailedValidation(1) /\ FailedValidation(2) /\ Validated(3)
    /\ result.kind = "model"
    /\ Cardinality(CorrectivePairs(Conversation)) = 2

\* C3 as stated, for the attempts of a call with a response model by which
\* the transport has reported some usage: the usage field of the response
\* handed to the parser equals the sum of the usages reported in attempts 1..i.
C3_Original ==
    (response.shape # "unbound" /\ response_model # "None"
     /\ SumUsage(history, response.id) # ZeroUsage) =>
        UsageOf(response) = SumUsage(history, response.id)

\* C3 as amended: at every attempt whose response carries usage metadata, the
\* usage field of the response handed to the parser (and to the caller) is
\* the component-wise sum of the usages reported in attempts 1..i.
C3_UsageIsRunningTotal ==
    (response.shape # "unbound" /\ history[response.id].usage # NoUsage) =>
        /\ response.usage = "total_usage"
        /\ UsageOf(response) = SumUsage(history, response.id)

\* Three attempts each reporting (10,5,15), two of them failed: (30,15,45).
C3_Witness ==
    /\ pc = "returned"
    /\ result.kind = "model"
    /\ result.raw_response = response.id
    /\ Len(history) = 3
    /\ \A i \in 1 .. 3 : history[i].usage = <<10, 5, 15>>
    /\ FailedValidation(1) /\ FailedValidation(2)
    /\ UsageOf(response) = <<30, 15, 45>>

\* C4 as stated: max_retries = 0 and an invalid first response end in a
\* TerminalRetryError after one transport invocation, whose last_completion
\* is the response of that attempt.
C4_Original ==
    (max_retries = 0 /\ Len(history) = 1 /\ FailedValidation(1)) =>
        /\ pc = "raised"
        /\ calls = 1
        /\ error.kind \in {"TerminalRetryError", "InstructorRetryException"}
        /\ error.has_last_completion
        /\ error.last_completion = 1

\* C5: an exception of the transport that is not a ValidationError or
\* DecodeError ends the call in the attempt that raised it: the transport is
\* not invoked again, that exception is what create raises, and the
\* conversation is the one that was sent in that attempt.
C5_TransportErrorNotRetried ==
    \A i \in 1 .. Len(history) :
        (history[i].source = "transport"
         /\ history[i].outcome \notin {"ValidationError", "JSONDecodeError"}) =>
            /\ i = Len(history)
            /\ calls = i
            /\ pc = "raised"
            /\ error.kind = history[i].outcome
            /\ Conversation = sent.messages

\* An authentication failure in the attempt after a retry.
C5_Witness ==
    /\ pc = "raised"
    /\ error.kind = "AuthenticationError"
    /\ Len(history) >= 2
    /\ FailedValidation(1)
    /\ history[Len(history)].source = "transport"

\* C6 as stated: every terminal failure of the call raises an exception that
\* exposes the last raw response (none when no response was received) and
\* from which the original error is reachable.
C6_Original ==
    (pc = "raised" /\ calls >= 1) =>
        /\ error.has_last_completion
        /\ error.last_completion = response.id
        /\ \/ error.kind = history[Len(history)].outcome
           \/ \E j \in 1 .. Len(error.chain) : error.chain[j] = history[Len(history)].outcome

\* C7 as stated: a call with a response model that returns, returns the
\* result of a successful parse-and-validate of a transport response.
C7_Original ==
    (pc = "returned" /\ response_model # "None") =>
        /\ result.kind \in {"model", "parallel", "generator"}
        /\ history # <<>>
        /\ Validated(Len(history))

\* C8 as stated: without a response model the request sent equals the
\* caller's, the conversation is not modified, the transport is invoked
\* exactly once and its response is returned unchanged.
C8_Original ==
    (Terminal /\ response_model = "None") =>
        /\ calls = 1
        /\ sent.kwargs = caller_kwargs
        /\ sent.messages = orig_messages
        /\ heap.caller = orig_messages
        /\ pc = "returned" =>
                /\ result = Result("raw_response", "", 1, <<>>)
                /\ UsageOf(response) = history[1].usage

\* C9 as stated: the caller's messages list is what it was before the call.
C9_Original ==
    pc # "idle" => heap.caller = orig_messages

\* C10 as stated: in a corrective turn the failing assistant message comes
\* first, then the tool message, then the corrective user message; no tool
\* message precedes the assistant message whose tool call it answers.
C10_Original ==
    \A i \in 1 .. Len(Conversation) :
        Conversation[i].role = "tool" =>
            /\ i > 1
            /\ Conversation[i - 1].role = "assistant"
            /\ Conversation[i - 1].tool_calls = Conversation[i].tool_call_id
            /\ i < Len(Conversation)
            /\ IsCorrectiveUser(Conversation[i + 1])

----------------------------------------------------------------------------
(* The mode handlers' transformations (TransformSpec) *)

\* The conversation of the request the handler built.
Transformed == Deref(heap, new_kwargs.messages)

\* The handler has run for a response model and returned.
HandlerRan == pc = "transformed" /\ response_model # "None"

\* The caller's texts found in msgs, in order of appearance, each with the
\* role of the message that holds it.
RECURSIVE CallerTexts(_)
CallerTexts(msgs) ==
    IF msgs = <<>> THEN <<>>
    ELSE LET c == msgs[1].content
             here == SelectSeq(c, LAMBDA t : t[1] = "caller text")
         IN  [i \in 1 .. Len(here) |-> <<msgs[1].role, here[i][2]>>]
             \o CallerTexts(Tail(msgs))

IsPrefix(p, q) == Len(p) <= Len(q) /\ SubSeq(q, 1, Len(p)) = p
IsSuffix(p, q) == Len(p) <= Len(q) /\ SubSeq(q, Len(q) - Len(p) + 1, Len(q)) = p
Contains(c, tok) == \E i \in 1 .. Len(c) : c[i] = tok

JsonFamily == {"JSON", "JSON_SCHEMA", "MD_JSON"}

----------------------------------------------------------------------------
(* The retry loop over the handlers' requests (Spec) *)

\* No two neighbours of msgs have the same role.
Alternating(msgs) ==
    \A i \in 1 .. Len(msgs) - 1 : msgs[i].role # msgs[i + 1].role

\* C12 as stated: under MD_JSON the message list of every transport
\* invocation, the first attempt and every retry, has no two adjacent
\* messages of one role.
C12_Original ==
    (mode = "MD_JSON" /\ response_model # "None" /\ calls >= 1) =>
        Alternating(sent.messages)

\* The handler ran under an Anthropic mode for a caller who gave no
\* top-level system string.
AnthropicNoSystemString ==
    HandlerRan /\ mode \in AnthropicModes /\ caller_kwargs.system = NoneContent

\* C13 as stated: under ANTHROPIC_TOOLS and ANTHROPIC_JSON without a
\* caller's system string, the transformed list has no system message, the other messages
\* keep their relative order, and the system string is the contents of the
\* system messages in their order joined by a blank line, followed under
\* ANTHROPIC_JSON by the schema text.
C13_Original ==
    AnthropicNoSystemString =>
        /\ \A i \in 1 .. Len(Transformed) : Transformed[i].role # "system"
        /\ CallerTexts(Transformed) = CallerTexts(NonSystemMessages(orig_messages))
        /\ new_kwargs.system =
              JoinContents(SystemContents(orig_messages))
              \o (IF mode = "ANTHROPIC_JSON" THEN AnthropicSchemaText ELSE <<>>)

\* One of the forbidden combinations was passed to create: stream under
\* PARALLEL_TOOLS, stream with a model that is not iterable, a system string
\* together with system messages under an Anthropic mode, a model entry
\* under GEMINI_JSON.
PreconditionViolated ==
    /\ pc # "idle"
    /\ response_model # "None"
    /\ \/ mode = "PARALLEL_TOOLS" /\ caller_kwargs.stream
       \/ response_model = "OpenAISchema" /\ caller_kwargs.stream
       \/ /\ impl = "process_response" /\ mode \in AnthropicModes
          /\ caller_kwargs.system # NoneContent
          /\ SystemContents(orig_messages) # <<>>
       \/ /\ impl = "process_response" /\ mode = "GEMINI_JSON"
          /\ caller_kwargs.model # "absent"

PreconditionErrors == {"AssertionError", "NotImplementedError", "ValueError"}

\* C14: a call that violates a precondition raises before the transport is
\* invoked even once and is not retried, whatever max_retries is.
C14_PreconditionRaisesBeforeTransport ==
    PreconditionViolated =>
        /\ pc = "raised"
        /\ error.kind \in PreconditionErrors
        /\ calls = 0 /\ retries = 0 /\ history = <<>>

\* A system string and a system message passed together under
\* ANTHROPIC_JSON, with the largest retry budget.
C14_Witness ==
    /\ PreconditionViolated
    /\ mode = "ANTHROPIC_JSON" /\ ~caller_kwargs.stream
    /\ max_retries = MaxRetries
    /\ error.kind = "ValueError"

\* The GEMINI_JSON handler has run and returned.
GeminiRan == HandlerRan /\ mode = "GEMINI_JSON"

\* C15 as stated: under GEMINI_JSON the default safety thresholds are
\* merged in without overwriting: every threshold the caller supplied is kept, and a
\* default is applied only to a category the caller left absent.
C15_Original ==
    GeminiRan =>
        /\ \A p \in caller_kwargs.safety_settings.items :
                p \in new_kwargs.safety_settings.items
        /\ \A d \in DefaultSafety :
                ~HasKey(caller_kwargs.safety_settings.items, d[1])
                    => d \in new_kwargs.safety_settings.items

\* The caller passed the sampling parameter k with a value.
Passed(k) == caller_kwargs[k] \notin {"absent", "None"}

PassedNames == {GeminiNames[i][2] : i \in {j \in 1 .. Len(GeminiNames) : Passed(GeminiNames[j][1])}}

C17_ForcingDirective ==
    HandlerRan =>
        /\ mode = "FUNCTIONS" =>
              /\ Len(new_kwargs.functions) = 1
              /\ new_kwargs.function_call = Named(new_kwargs.functions[1])
        /\ mode = "TOOLS" =>
              /\ Len(new_kwargs.tools) = 1
              /\ new_kwargs.tool_choice = Named(new_kwargs.tools[1])
        /\ mode = "MISTRAL_TOOLS" =>
              /\ Len(new_kwargs.tools) = 1
              /\ new_kwargs.tool_choice = Generic("any")
        /\ mode = "PARALLEL_TOOLS" =>
              /\ new_kwargs.tools = UnionMembers
              /\ new_kwargs.tool_choice = Generic("auto")

\* The MISTRAL_TOOLS handler has run on an iterable model.
C17_Witness ==
    /\ HandlerRan /\ mode = "MISTRAL_TOOLS"
    /\ response_model = "IterableModel"
    /\ new_kwargs.tools = <<"IterableUserDetail">>
    /\ new_kwargs.tool_choice.kind = "any"

\* The call has returned the parse of its latest response.
Succeeded == pc = "returned" /\ history # <<>> /\ Validated(Len(history))

\* The tool calls / tasks the latest response carried.
LastItems == history[Len(history)].items

C19_Original ==
    (Succeeded /\ response_model = "IterableModel" /\ ~caller_kwargs.stream) =>
        /\ result.kind = "list"
        /\ result.items = LastItems
        /\ \A i \in 1 .. Len(result.items) : result.items[i] = "UserDetail"

\* A single-model call (no stream, no iterable, no union) has succeeded.
SingleModelSucceeded == Succeeded /\ response_model = "OpenAISchema"

----------------------------------------------------------------------------
(* The corrective turn *)

\* The loop has just appended a corrective turn for the response it received
\* in the attempt that failed.
TurnAppended ==
    /\ pc = "attempt" /\ history # <<>> /\ FailedValidation(Len(history))

\* The assistant message of the latest corrective turn: the turn ends with
\* the corrective user message, followed under MD_JSON by the fence message.
LastFailingAssistant ==
    Conversation[Len(Conversation) - (IF mode = "MD_JSON" THEN 2 ELSE 1)]

\* C26 as stated: the assistant message appended after a retriable failure
\* has the role and exactly the content of the failing response's message,
\* with or without a tool-call or function-call payload.
C26_Original ==
    TurnAppended =>
        /\ LastFailingAssistant.role = ResponseMessage(response).role
        /\ LastFailingAssistant.content = ResponseMessage(response).content

\* C26 as amended: the appended assistant message has the role of the
\* failing response's message; its content is that message's content (the
\* empty string for None) followed by the JSON text of its tool calls and of
\* its function call when it carries them, and exactly that message's
\* content when it carries neither.
C26_AssistantMessageIsDumped ==
    TurnAppended =>
        LET msg == ResponseMessage(response)
            text == IF msg.content = NoneContent THEN <<>> ELSE msg.content
        IN  /\ LastFailingAssistant.role = msg.role
            /\ LastFailingAssistant.tool_calls = msg.tool_calls
            /\ LastFailingAssistant.content =
                  text
                  \o (IF msg.tool_calls # 0
                      THEN <<Tok("json.dumps(tool_calls)", msg.tool_calls)>> ELSE <<>>)
                  \o (IF msg.function_call # 0
                      THEN <<Tok("json.dumps(function_call)", msg.function_call)>> ELSE <<>>)
            /\ (msg.tool_calls = 0 /\ msg.function_call = 0) =>
                  LastFailingAssistant.content = msg.content

\* A second failed attempt whose response carried a tool call and no text.
C26_Witness ==
    /\ TurnAppended /\ Len(history) = 2
    /\ response.shape = "tool"
    /\ LastFailingAssistant.content = <<Tok("json.dumps(tool_calls)", 2)>>

----------------------------------------------------------------------------
(* The schema instruction of the JSON family *)

\* The number of places of c that hold tok.
Occurrences(c, tok) == Cardinality({i \in 1 .. Len(c) : c[i] = tok})

\* C29 as stated: after a JSON, JSON_SCHEMA or MD_JSON transform the schema
\* instruction occurs exactly once in the first (system) message, whether
\* that message was inserted or already there.
C29_Original ==
    (HandlerRan /\ mode \in JsonFamily) =>
        /\ Transformed[1].role = "system"
        /\ Occurrences(Transformed[1].content, SchemaInstruction[1]) = 1

----------------------------------------------------------------------------
(* Errors raised by the transport call itself *)

\* C30 as stated: when the ValidationError or JSONDecodeError caught in an
\* attempt was raised by the transport call, before the attempt produced a
\* response, the except block appends no assistant message of the response
\* of an earlier attempt, and does not fail on the unbound response in the
\* first attempt.
C30_Original ==
    [][(/\ pc = "attempt"
        /\ Len(history') = Len(history) + 1
        /\ history'[Len(history')].source = "transport"
        /\ history'[Len(history')].outcome \in {"ValidationError", "JSONDecodeError"})
       => (/\ error'.kind # "UnboundLocalError"
           /\ \A j \in Len(Conversation) + 1 .. Len(Conversation') :
                \A k \in 1 .. calls : ~IsFailingAssistant(Conversation'[j], k))]_vars

----------------------------------------------------------------------------
(* The call without a max_retries argument (DefaultSpec) *)

\* C23 as stated: without a max_retries argument the transport is invoked at
\* most once, and an invalid first response ends the call with no corrective
\* turn and no second attempt.
C23_Original ==
    /\ calls <= 1
    /\ (history # <<>> /\ FailedValidation(1)) =>
            /\ pc = "raised"
            /\ CorrectiveUsers(Conversation) = {}

----------------------------------------------------------------------------
(* The Gemini/Vertex schema conversion (SchemaSpec) *)

\* The largest number of fields of a target schema.
MaxFields == 3

FieldNames == {<<"field", i>> : i \in 1 .. MaxFields}

\* How a field is declared: without a default (required), with a default
\* value, or with a default factory (optional, no default in the schema).
FieldKinds == {"required", "default", "default_factory"}

\* The target schemas: up to MaxFields fields with distinct names, in
\* declaration order.
TargetSchemas ==
    {fs \in SeqsUpTo(FieldNames \X FieldKinds, MaxFields) :
        \A i, j \in 1 .. Len(fs) : fs[i][1] = fs[j][1] => i = j}

\* model.model_json_schema(): one property per field, with a default key for
\* a field declared with a default value; the required key lists the fields
\* declared without a default and is missing when there is none.
model_json_schema(fs) ==
    LET req == SelectSeq(fs, LAMBDA f : f[2] = "required")
    IN  [properties |-> [i \in 1 .. Len(fs) |->
                            [name |-> fs[i][1], has_default |-> fs[i][2] = "default"]],
         required |-> [present |-> req # <<>>,
                       names |-> [i \in 1 .. Len(req) |-> req[i][1]]]]

\* The conversion that copies the required list and adds nothing to it.
create_gemini_json_schema_as_listed(fs) ==
    LET s == model_json_schema(fs)
    IN  [type |-> "object", properties |-> s.properties,
         required |-> IF s.required.present THEN s.required.names ELSE <<>>]

\* _create_gemini_json_schema(model): the required list of the schema (empty
\* on KeyError), then every property whose description has a default key.
create_gemini_json_schema(fs) ==
    LET s == model_json_schema(fs)
        required_properties == IF s.required.present THEN s.required.names ELSE <<>>
        with_default == SelectSeq(s.properties, LAMBDA p : p.has_default)
    IN  [type |-> "object", properties |-> s.properties,
         required |-> required_properties
                      \o [i \in 1 .. Len(with_default) |-> with_default[i].name]]

\* A target schema is chosen; nothing has been converted.
SchemaInit ==
    /\ impl = "process_response"
    /\ mode \in {"VERTEXAI_TOOLS", "VERTEXAI_JSON"}
    /\ CallLocals
    /\ peer = NoPeer
    /\ partial = NoStream
    /\ schema \in {[fields |-> fs, gemini_schema |-> NoGeminiSchema] : fs \in TargetSchemas}

\* The conversion runs on the target schema.
Convert ==
    /\ schema.gemini_schema = NoGeminiSchema
    /\ schema' = [schema EXCEPT !.gemini_schema = create_gemini_json_schema(schema.fields)]
    /\ UNCHANGED <<peer, partial, mode, impl, surface, pc, heap, orig_messages,
                   caller_kwargs, response_model, new_kwargs, max_retries, retries,
                   total_usage, response, calls, sent, history, result, error>>

SchemaNext == Convert

SchemaSpec == SchemaInit /\ [][SchemaNext]_vars

\* The names a sequence lists.
Listed(q) == {q[i] : i \in 1 .. Len(q)}

Converted == schema.gemini_schema # NoGeminiSchema

\* C28: the required list of the converted schema contains every property
\* the neutral schema lists as required and every property that carries a
\* default, lists no property twice, and lacks a property only if it is
\* neither required nor default-bearing.
C28_RequiredCoversDefaults ==
    Converted =>
        LET neutral == model_json_schema(schema.fields)
            required == schema.gemini_schema.required
            listed == IF neutral.required.present THEN Listed(neutral.required.names) ELSE {}
            defaulted == {neutral.properties[i].name :
                            i \in {j \in 1 .. Len(neutral.properties) :
                                      neutral.properties[j].has_default}}
        IN  /\ listed \subseteq Listed(required)
            /\ defaulted \subseteq Listed(required)
            /\ \A i, j \in 1 .. Len(required) : required[i] = required[j] => i = j
            /\ Listed(required) \subseteq listed \cup defaulted

\* A schema with a required field, a field with a default and a field with a
\* default factory has been converted: two names are listed.
C28_Witness ==
    /\ Converted
    /\ Len(schema.fields) = 3
    /\ {schema.fields[i][2] : i \in 1 .. 3} = FieldKinds
    /\ Len(schema.gemini_schema.required) = 2

----------------------------------------------------------------------------
(* The two surfaces *)

OtherSurface == IF surface = "sync" THEN "async" ELSE "sync"

\* C21 as stated: the synchronous and the asynchronous loop are equivalent.
\* Both are deterministic in the mode, the request, max_retries and the
\* transport's responses, so they are equivalent exactly when every step of
\* one is the step the other takes from the same state on the same response:
\* the corrective messages a step appends are, roles, contents and order,
\* those the other surface's except block appends for that error and that
\* response.
C21_Original ==
    [][(pc = "attempt" /\ Len(Conversation') > Len(Conversation))
       => \E kind \in {"ValidationError", "JSONDecodeError"} :
            Conversation' = Conversation
                \o CorrectiveTurn([kind |-> kind, id |-> calls'], response', mode,
                                  OtherSurface)]_vars

----------------------------------------------------------------------------
(* Suspension and cancellation (AsyncSpec) *)

Suspended == pc = "awaiting"

Cancelled == history # <<>> /\ history[Len(history)].source = "cancelled"

\* C25: in retry_async the conversation and the usage total are left as they
\* are by the step that starts a transport invocation and by a cancellation
\* during it: while suspended and once cancelled the conversation is the one
\* the invocation was started with and the usage total is unchanged.  After
\* the handler has run they change only in a step that resumes from the
\* await with the transport's outcome.
C25_MutationOnlyAfterResponse ==
    [][/\ (Suspended' \/ Cancelled') =>
            /\ Conversation' = Conversation
            /\ total_usage' = total_usage
            /\ Conversation' = sent'.messages
       /\ (pc # "idle" /\ (Conversation' # Conversation \/ total_usage' # total_usage)) =>
            /\ Suspended
            /\ ~Cancelled'
            /\ Len(history') = Len(history) + 1]_vars

\* The call is cancelled during its second invocation, after a first
\* response that counted tokens, failed validation and got a corrective turn.
C25_Witness ==
    /\ Cancelled
    /\ pc = "raised" /\ error.kind = "CancelledError"
    /\ Len(history) = 2 /\ FailedValidation(1)
    /\ total_usage # ZeroUsage
    /\ CorrectiveUsers(Conversation) # {}
    /\ Conversation = sent.messages

----------------------------------------------------------------------------
(* Two interleaved calls (ConcurrentSpec) *)

\* The numbers of the responses whose corrective user messages msgs holds.
TurnsIn(msgs) ==
    {msgs[i].content[2][2] : i \in {j \in 1 .. Len(msgs) : IsCorrectiveUser(msgs[j])}}

\* C22 as stated: of two interleaved calls, also when started from the same
\* request mapping and messages list, neither sends a request that holds a
\* corrective turn the other appended, and the usage total of each is the sum
\* of the usages of its own responses.
C22_Original ==
    (peer.pc \notin {"absent", "idle"}) =>
        /\ \A k \in TurnsIn(sent.messages) : k > 0
        /\ \A k \in TurnsIn(peer.sent.messages) : k < 0
        /\ total_usage = SumUsage(history, Len(history))
        /\ peer.total_usage = SumUsage(peer.history, Len(peer.history))

----------------------------------------------------------------------------
(* The Partial stream (StreamSpec) *)

\* The texts {"name":"J", {"name":"Jason" and {"name":"Jason","age":12 are
\* each the text read at the end of some chunk.
ThreeStages ==
    \A piece \in {"\"J", "ason\"", "12}"} :
        \E c \in partial.cuts : JsonText[c] = piece

\* C24: over a Partial stream that builds the name J, then the name Jason,
\* then the age 12, every yielded snapshot is an instance of the target
\* schema; once the stream has signalled completion the sequence has ended
\* with one snapshot per chunk, some snapshot before the last has no age yet,
\* and the last has both fields; a second iteration yields nothing.
C24_PartialSnapshots ==
    ThreeStages =>
        LET y == partial.yielded
        IN  /\ \A i \in 1 .. Len(y) : y[i].cls = "UserExtract"
            /\ partial.pc \in {"exhausted", "iterated twice"} =>
                /\ Len(y) = Cardinality(partial.cuts)
                /\ \E i \in 1 .. Len(y) - 1 : y[i].age = Unseen
                /\ \E i \in 1 .. Len(y) - 1 : y[i].name = "J" /\ y[i].age = Unseen
                /\ y[Len(y)].name = "Jason" /\ y[Len(y)].age = "12"
            /\ partial.pc = "iterated twice" => partial.again = <<>>

\* The stream of exactly the three chunks has been iterated twice.
C24_Witness ==
    /\ ThreeStages
    /\ partial.pc = "iterated twice"
    /\ Len(partial.yielded) = 3
    /\ partial.yielded[1] = [cls |-> "UserExtract", name |-> "J", age |-> Unseen]
    /\ partial.yielded[2] = [cls |-> "UserExtract", name |-> "Jason", age |-> Unseen]
    /\ partial.yielded[3] = [cls |-> "UserExtract", name |-> "Jason", age |-> "12"]

====
